---- MODULE Spec2Model ----
(***************************************************************************)
(* Model of the two serverless checkout handlers of tabby-ghl-backend:     *)
(*   api/create-session.js  - Tabby-only handler                           *)
(*   the unified handler    - Tabby + Stripe + GHL CRM                     *)
(* One invocation handles one request.  Every `await` of the source splits *)
(* the handler into an action that issues the outbound call and an action  *)
(* that resumes with the answer; the code between two awaits is atomic.    *)
(***************************************************************************)
EXTENDS Integers, Sequences, FiniteSets, TLC

\* Longest amount string a request carries.
MaxAmountLen == 2

\* Characters an amount string is made of: a zero digit, a positive digit,
\* the sign, the decimal point and a character that is none of these.
AmountChars == {"0", "5", "-", ".", "x"}

\* A field that is absent from an object.
Undefined == "undefined"

\* The value of ghlContactId before / without a successful upsert.
Null == "null"

VARIABLES
  variant,   \* which handler is deployed: "create-session" or "unified"
  env,       \* process.env: TRUE when the variable is set to a non-empty value
  req,       \* the request being handled
  h          \* the handler invocation: position, locals, outbound log, response

vars == <<variant, env, req, h>>

----------------------------------------------------------------------------
(* Strings of amount characters, as sequences of one-character strings. *)

RECURSIVE StringsUpTo(_)
StringsUpTo(n) ==
  IF n = 0 THEN {<<>>}
  ELSE LET shorter == StringsUpTo(n - 1)
       IN  shorter \cup {Append(s, c) : s \in {t \in shorter : Len(t) = n - 1},
                                          c \in AmountChars}

AmountStrings == StringsUpTo(MaxAmountLen)

EnvNames ==
  {"TABBY_SECRET_KEY", "TABBY_PUBLIC_KEY", "TABBY_MERCHANT_CODE",
   "STRIPE_SECRET_KEY", "GHL_API_KEY", "GHL_LOCATION_ID"}

\* The variables create-session.js reads.
TabbyEnvNames == {"TABBY_SECRET_KEY", "TABBY_PUBLIC_KEY", "TABBY_MERCHANT_CODE"}

Envs(variantName) ==
  IF variantName = "unified" THEN [EnvNames -> BOOLEAN]
  ELSE {e \in [EnvNames -> BOOLEAN] : \A n \in EnvNames \ TabbyEnvNames : ~e[n]}

\* A request without a usable body: req.body is undefined.
BodylessRequest(m) ==
  [method |-> m, hasBody |-> FALSE, payment_method |-> Undefined,
   phone |-> Undefined, email |-> Undefined,
   amountGiven |-> FALSE, amount |-> <<>>]

Requests ==
  {BodylessRequest(m) : m \in {"OPTIONS", "GET", "POST"}}
  \cup
  [method : {"POST"}, hasBody : {TRUE},
   payment_method : {Undefined, "tabby", "stripe"},
   phone : {Undefined, "", "+971500000001"},
   email : {Undefined, "", "buyer@example.com"},
   amountGiven : {TRUE}, amount : AmountStrings]
  \cup
  [method : {"POST"}, hasBody : {TRUE},
   payment_method : {Undefined, "tabby", "stripe"},
   phone : {Undefined, "", "+971500000001"},
   email : {Undefined, "", "buyer@example.com"},
   amountGiven : {FALSE}, amount : {<<>>}]

\* What the Tabby checkout call can come back with: a thrown fetch / json(),
\* or a parsed object.  web_url stands for
\* configuration.available_products.installments[0].web_url and
\* rejection_reason for configuration.products.installments[0].rejection_reason.
TabbyThrows ==
  [ok |-> FALSE, status |-> Undefined, web_url |-> Undefined,
   rejection_reason |-> Undefined]

TabbyAnswers ==
  {TabbyThrows}
  \cup [ok : {TRUE}, status : {"created"}, web_url : {Undefined, "https://pay/x"},
        rejection_reason : {Undefined}]
  \cup [ok : {TRUE}, status : {"rejected"}, web_url : {Undefined},
        rejection_reason : {Undefined, "risky"}]
  \cup [ok : {TRUE}, status : {"expired"}, web_url : {Undefined},
        rejection_reason : {Undefined}]

\* stripe.checkout.sessions.create resolves with a session or throws.
StripeThrows == [ok |-> FALSE, url |-> Undefined, id |-> Undefined]

StripeAnswers ==
  {StripeThrows, [ok |-> TRUE, url |-> "https://stripe/pay", id |-> "cs_1"]}

\* POST /contacts/: a body with contact.id, a parsed body without it, or a
\* thrown network error / unparseable body.
GhlContactAnswers == {"contact", "nocontact", "throw"}

\* POST /contacts/{id}/notes and PUT /contacts/{id}: the body is never read.
GhlCallOutcomes == {"ok", "throw"}

----------------------------------------------------------------------------
(* parseFloat on a string of amount characters.  The result is NaN or the  *)
(* number mant / 10^frac.                                                  *)

IsDigit(c) == c \in {"0", "1", "2", "3", "4", "5", "6", "7", "8", "9"}

DigitVal(c) ==
  CASE c = "0" -> 0 [] c = "1" -> 1 [] c = "2" -> 2 [] c = "3" -> 3
    [] c = "4" -> 4 [] c = "5" -> 5 [] c = "6" -> 6 [] c = "7" -> 7
    [] c = "8" -> 8 [] c = "9" -> 9

RECURSIVE DigitPrefix(_)
DigitPrefix(str) ==
  IF str # <<>> /\ IsDigit(Head(str))
  THEN <<Head(str)>> \o DigitPrefix(Tail(str))
  ELSE <<>>

RECURSIVE DigitsToInt(_)
DigitsToInt(ds) ==
  IF ds = <<>> THEN 0
  ELSE 10 * DigitsToInt(SubSeq(ds, 1, Len(ds) - 1)) + DigitVal(ds[Len(ds)])

Drop(str, n) == SubSeq(str, n + 1, Len(str))

NaN == [nan |-> TRUE, mant |-> 0, frac |-> 0]

parseFloat(str) ==
  LET neg      == str # <<>> /\ Head(str) = "-"
      unsigned == IF str # <<>> /\ Head(str) \in {"-", "+"} THEN Tail(str) ELSE str
      whole    == DigitPrefix(unsigned)
      rest     == Drop(unsigned, Len(whole))
      fraction == IF rest # <<>> /\ Head(rest) = "."
                  THEN DigitPrefix(Tail(rest)) ELSE <<>>
      digits   == whole \o fraction
  IN  IF digits = <<>> THEN NaN
      ELSE [nan  |-> FALSE,
            mant |-> (IF neg THEN -1 ELSE 1) * DigitsToInt(digits),
            frac |-> Len(fraction)]

\* x <= 0 in JavaScript: false for NaN.
LessEqZero(x) == ~x.nan /\ x.mant <= 0

\* x > 0 as a number.
Positive(x) == ~x.nan /\ x.mant > 0

----------------------------------------------------------------------------
(* Destructuring of req.body with its defaults. *)

payment_method(r) == IF r.payment_method = Undefined THEN "tabby" ELSE r.payment_method
phone(r)  == IF r.phone = Undefined THEN "" ELSE r.phone
email(r)  == IF r.email = Undefined THEN "" ELSE r.email
amount(r) == IF r.amountGiven THEN r.amount ELSE <<"0", ".", "0", "0">>

\* if (!phone || !amount || parseFloat(amount) <= 0)
validationFails(r) ==
  \/ phone(r) = ""
  \/ amount(r) = <<>>
  \/ LessEqZero(parseFloat(amount(r)))

----------------------------------------------------------------------------
(* The invocation record and the primitives of the handler. *)

Idle ==
  [pc           |-> "idle",
   ghlContactId |-> Null,
   tabbyData    |-> TabbyThrows,
   session      |-> StripeThrows,
   log          |-> <<>>,
   status       |-> 0,
   body         |-> [sent |-> FALSE]]

\* An outbound call starts: fetch(...) / stripe.checkout.sessions.create(...).
issue(s, op, verb, tags, next) ==
  [s EXCEPT !.pc  = next,
            !.log = Append(@, [ev |-> "issue", op |-> op, verb |-> verb,
                               tags |-> tags, outcome |-> ""])]

\* The awaited call settles with `outcome`; a throw is what the enclosing
\* catch block logs.
settle(s, op, outcome) ==
  [s EXCEPT !.log = Append(@, [ev |-> "return", op |-> op, verb |-> "",
                               tags |-> {}, outcome |-> outcome])]

\* res.status(code).json(body) / res.status(code).end()
respond(s, code, body) ==
  [s EXCEPT !.pc     = "done",
            !.status = code,
            !.body   = body,
            !.log    = Append(@, [ev |-> "respond", op |-> "res", verb |-> "",
                                  tags |-> {}, outcome |-> ""])]

----------------------------------------------------------------------------
(* api/create-session.js *)

\* Lines 10-102: from the entry of the handler to the await of the Tabby
\* fetch, or to the response that ends the invocation earlier.
createSessionStart(s, r) ==
  IF r.method = "OPTIONS" THEN respond(s, 200, [ended |-> TRUE])
  ELSE IF r.method # "POST" THEN respond(s, 405, [error |-> "Method not allowed"])
  ELSE IF ~env.TABBY_SECRET_KEY \/ ~env.TABBY_MERCHANT_CODE
    THEN respond(s, 500, [error |-> "Server misconfigured: missing Tabby keys"])
  ELSE IF ~r.hasBody  \* destructuring undefined throws inside the try
    THEN respond(s, 500, [error   |-> "Internal server error while creating Tabby session.",
                          details |-> "TypeError"])
  ELSE IF validationFails(r)
    THEN respond(s, 400, [error |-> "Missing required fields: phone and amount are required."])
  ELSE issue(s, "tabby", "POST", {}, "await_tabby")

\* Lines 104-146: the Tabby call has settled with `a`.
createSessionTabbyReturns(s, a) ==
  LET t == [settle(s, "tabby", IF a.ok THEN "ok" ELSE "throw") EXCEPT !.tabbyData = a]
  IN  IF ~a.ok
      THEN respond(t, 500, [error   |-> "Internal server error while creating Tabby session.",
                            details |-> "fetch failed"])
      ELSE IF a.status = "created"
      THEN IF a.web_url # Undefined
           THEN respond(t, 200, [success |-> TRUE, redirect_url |-> a.web_url])
           ELSE respond(t, 200,
                  [success |-> FALSE,
                   error |-> "Session created but no redirect URL found. Check Tabby dashboard.",
                   tabby_response |-> a])
      ELSE IF a.status = "rejected"
      THEN respond(t, 200,
             [success |-> FALSE,
              error |-> "Tabby was unable to approve this purchase. The customer may need to use an alternative payment method.",
              rejection_reason |-> IF a.rejection_reason # Undefined
                                   THEN a.rejection_reason ELSE "unknown"])
      ELSE respond(t, 200, [success |-> FALSE,
                            error |-> "Unexpected response from Tabby.",
                            tabby_response |-> a])

----------------------------------------------------------------------------
(* The unified handler (Tabby + Stripe + GHL CRM) *)

\* catch (error) of the outer try, lines 328-334.
catch(s, message) ==
  respond(s, 500, [error |-> "Internal server error.", details |-> message])

paymentTag(r) ==
  IF payment_method(r) = "stripe" THEN "payment-stripe" ELSE "payment-tabby"

\* createPaymentSession without the STRIPE_SECRET_KEY check.
createPaymentSessionNoStripeCheck(s, r) ==
  IF payment_method(r) = "stripe"
  THEN issue(s, "stripe", "POST", {}, "await_stripe")
  ELSE IF ~env.TABBY_SECRET_KEY \/ ~env.TABBY_MERCHANT_CODE
       THEN respond(s, 500, [error |-> "Tabby is not configured."])
       ELSE issue(s, "tabby", "POST", {}, "await_tabby")

\* STEP 2, lines 123-160 and 192-242: the provider's configuration check and
\* the start of the provider call.
createPaymentSession(s, r) ==
  IF payment_method(r) = "stripe"
  THEN IF ~env.STRIPE_SECRET_KEY
       THEN respond(s, 500, [error |-> "Stripe is not configured."])
       ELSE issue(s, "stripe", "POST", {}, "await_stripe")
  ELSE IF ~env.TABBY_SECRET_KEY \/ ~env.TABBY_MERCHANT_CODE
       THEN respond(s, 500, [error |-> "Tabby is not configured."])
       ELSE issue(s, "tabby", "POST", {}, "await_tabby")

\* unifiedStart with the contact upsert not awaited: the provider call starts
\* while the upsert is in flight.
unifiedStartNoAwait(s, r) ==
  IF r.method = "OPTIONS" THEN respond(s, 200, [ended |-> TRUE])
  ELSE IF r.method # "POST" THEN respond(s, 405, [error |-> "Method not allowed"])
  ELSE IF ~r.hasBody THEN catch(s, "TypeError")
  ELSE IF validationFails(r)
    THEN respond(s, 400, [error |-> "Missing required fields: phone and amount are required."])
  ELSE IF email(r) = ""
    THEN respond(s, 400, [error |-> "Email is required."])
  ELSE IF env.GHL_API_KEY /\ env.GHL_LOCATION_ID
    THEN createPaymentSession(
           issue(s, "contact", "POST",
                 {"checkout-started", "ems-suit", paymentTag(r)}, "await_contact"), r)
  ELSE createPaymentSession(s, r)

\* Lines 17-104: entry, validation and the start of STEP 1.
unifiedStart(s, r) ==
  IF r.method = "OPTIONS" THEN respond(s, 200, [ended |-> TRUE])
  ELSE IF r.method # "POST" THEN respond(s, 405, [error |-> "Method not allowed"])
  ELSE IF ~r.hasBody THEN catch(s, "TypeError")
  ELSE IF validationFails(r)
    THEN respond(s, 400, [error |-> "Missing required fields: phone and amount are required."])
  ELSE IF email(r) = ""
    THEN respond(s, 400, [error |-> "Email is required."])
  ELSE IF env.GHL_API_KEY /\ env.GHL_LOCATION_ID
    THEN issue(s, "contact", "POST",
               {"checkout-started", "ems-suit", paymentTag(r)}, "await_contact")
  ELSE createPaymentSession(s, r)

\* ghlContactReturns without the inner try/catch: a throw of the upsert
\* reaches the outer catch.
ghlContactReturnsUncaught(s, r, o) ==
  LET t == settle(s, "contact", o)
  IN  IF o = "throw" THEN catch(t, "fetch failed")
      ELSE createPaymentSession(
             IF o = "contact" THEN [t EXCEPT !.ghlContactId = "contact-1"] ELSE t, r)

\* Lines 106-117, then STEP 2: the contact upsert has settled with `o`.
ghlContactReturns(s, r, o) ==
  LET t == settle(s, "contact", o)
  IN  createPaymentSession(
        IF o = "contact" THEN [t EXCEPT !.ghlContactId = "contact-1"] ELSE t, r)

\* Lines 184-190.
stripeResponse(s) ==
  respond(s, 200, [success        |-> TRUE,
                   redirect_url   |-> s.session.url,
                   session_id     |-> s.session.id,
                   ghl_contact_id |-> s.ghlContactId,
                   payment_method |-> "stripe"])

\* Lines 132-182: the Stripe call has settled with `a`.
stripeReturns(s, a) ==
  LET t == [settle(s, "stripe", IF a.ok THEN "ok" ELSE "throw") EXCEPT !.session = a]
  IN  IF ~a.ok THEN catch(t, "stripe error")
      ELSE IF t.ghlContactId # Null /\ env.GHL_API_KEY
      THEN issue(t, "note", "POST", {}, "await_stripe_note")
      ELSE stripeResponse(t)

\* stripeNoteReturns without the inner try/catch.
stripeNoteReturnsUncaught(s, o) ==
  IF o = "throw" THEN catch(settle(s, "note", o), "fetch failed")
  ELSE stripeResponse(settle(s, "note", o))

\* Lines 165-190: the note call has settled; a throw is caught and logged.
stripeNoteReturns(s, o) == stripeResponse(settle(s, "note", o))

\* tabbyCreatedResponse that does not look at webUrl.
tabbyCreatedResponseNoUrlCheck(s) ==
  respond(s, 200, [success        |-> TRUE,
                   redirect_url   |-> s.tabbyData.web_url,
                   ghl_contact_id |-> s.ghlContactId,
                   payment_method |-> "tabby"])

\* Lines 273-288.
tabbyCreatedResponse(s) ==
  IF s.tabbyData.web_url # Undefined
  THEN respond(s, 200, [success        |-> TRUE,
                        redirect_url   |-> s.tabbyData.web_url,
                        ghl_contact_id |-> s.ghlContactId,
                        payment_method |-> "tabby"])
  ELSE respond(s, 200, [success        |-> FALSE,
                        error          |-> "Session created but no redirect URL found.",
                        tabby_response |-> s.tabbyData])

\* Lines 312-319.
tabbyRejectedResponse(s) ==
  respond(s, 200,
    [success |-> FALSE,
     error |-> "Tabby was unable to approve this purchase. Please try paying with a card instead.",
     rejection_reason |-> IF s.tabbyData.rejection_reason # Undefined
                          THEN s.tabbyData.rejection_reason ELSE "unknown"])

\* tabbyReturns whose "rejected" branch does not tag the contact.
tabbyReturnsNoTag(s, a) ==
  LET t == [settle(s, "tabby", IF a.ok THEN "ok" ELSE "throw") EXCEPT !.tabbyData = a]
  IN  IF ~a.ok THEN catch(t, "fetch failed")
      ELSE IF a.status = "created"
      THEN IF t.ghlContactId # Null /\ env.GHL_API_KEY
           THEN issue(t, "note", "POST", {}, "await_tabby_note")
           ELSE tabbyCreatedResponse(t)
      ELSE IF a.status = "rejected"
      THEN tabbyRejectedResponse(t)
      ELSE respond(t, 200, [success        |-> FALSE,
                            error          |-> "Unexpected response from Tabby.",
                            tabby_response |-> a])

\* Lines 235-326: the Tabby call has settled with `a`.
tabbyReturns(s, a) ==
  LET t == [settle(s, "tabby", IF a.ok THEN "ok" ELSE "throw") EXCEPT !.tabbyData = a]
  IN  IF ~a.ok THEN catch(t, "fetch failed")
      ELSE IF a.status = "created"
      THEN IF t.ghlContactId # Null /\ env.GHL_API_KEY
           THEN issue(t, "note", "POST", {}, "await_tabby_note")
           ELSE tabbyCreatedResponse(t)
      ELSE IF a.status = "rejected"
      THEN IF t.ghlContactId # Null /\ env.GHL_API_KEY
           THEN issue(t, "tag", "PUT",
                      {"checkout-started", "ems-suit", "tabby-rejected"}, "await_tag")
           ELSE tabbyRejectedResponse(t)
      ELSE respond(t, 200, [success        |-> FALSE,
                            error          |-> "Unexpected response from Tabby.",
                            tabby_response |-> a])

\* Lines 254-288: the note call has settled; a throw is caught and logged.
tabbyNoteReturns(s, o) == tabbyCreatedResponse(settle(s, "note", o))

\* Lines 293-319: the tag call has settled; a throw is caught and logged.
tagReturns(s, o) == tabbyRejectedResponse(settle(s, "tag", o))

----------------------------------------------------------------------------
(* The state machine *)

NoRequest == BodylessRequest(Undefined)

Init ==
  /\ variant \in {"create-session", "unified"}
  /\ env \in Envs(variant)
  /\ req = NoRequest
  /\ h = Idle

CreateSessionReceive ==
  /\ variant = "create-session"
  /\ h.pc = "idle"
  /\ \E r \in Requests :
       /\ req' = r
       /\ h' = createSessionStart(h, r)
  /\ UNCHANGED <<variant, env>>

CreateSessionTabbyReturns ==
  /\ variant = "create-session"
  /\ h.pc = "await_tabby"
  /\ \E a \in TabbyAnswers : h' = createSessionTabbyReturns(h, a)
  /\ UNCHANGED <<variant, env, req>>

UnifiedReceive ==
  /\ variant = "unified"
  /\ h.pc = "idle"
  /\ \E r \in Requests :
       /\ req' = r
       /\ h' = unifiedStart(h, r)
  /\ UNCHANGED <<variant, env>>

GhlContactReturns ==
  /\ h.pc = "await_contact"
  /\ \E o \in GhlContactAnswers : h' = ghlContactReturns(h, req, o)
  /\ UNCHANGED <<variant, env, req>>

StripeReturns ==
  /\ h.pc = "await_stripe"
  /\ \E a \in StripeAnswers : h' = stripeReturns(h, a)
  /\ UNCHANGED <<variant, env, req>>

StripeNoteReturns ==
  /\ h.pc = "await_stripe_note"
  /\ \E o \in GhlCallOutcomes : h' = stripeNoteReturns(h, o)
  /\ UNCHANGED <<variant, env, req>>

TabbyReturns ==
  /\ variant = "unified"
  /\ h.pc = "await_tabby"
  /\ \E a \in TabbyAnswers : h' = tabbyReturns(h, a)
  /\ UNCHANGED <<variant, env, req>>

TabbyNoteReturns ==
  /\ h.pc = "await_tabby_note"
  /\ \E o \in GhlCallOutcomes : h' = tabbyNoteReturns(h, o)
  /\ UNCHANGED <<variant, env, req>>

TagReturns ==
  /\ h.pc = "await_tag"
  /\ \E o \in GhlCallOutcomes : h' = tagReturns(h, o)
  /\ UNCHANGED <<variant, env, req>>

Next ==
  \/ CreateSessionReceive
  \/ CreateSessionTabbyReturns
  \/ UnifiedReceive
  \/ GhlContactReturns
  \/ StripeReturns
  \/ StripeNoteReturns
  \/ TabbyReturns
  \/ TabbyNoteReturns
  \/ TagReturns

Spec == Init /\ [][Next]_vars

----------------------------------------------------------------------------
(* Vocabulary of the properties *)

Events == DOMAIN h.log

IssuedAt(i, op)   == h.log[i].ev = "issue" /\ h.log[i].op = op
ReturnedAt(i, op) == h.log[i].ev = "return" /\ h.log[i].op = op

Issued(op)   == \E i \in Events : IssuedAt(i, op)
Returned(op) == \E i \in Events : ReturnedAt(i, op)

AnyOutboundCall == \E i \in Events : h.log[i].ev = "issue"

Responded == h.pc = "done"

\* The response body carries success:true / success:false.
SuccessIs(s, b) == "success" \in DOMAIN s.body /\ s.body.success = b

ErrorIs(s, text) == "error" \in DOMAIN s.body /\ s.body.error = text

\* The request as the caller sent it.
PhoneMissingOrEmpty  == req.phone \in {Undefined, ""}
EmailMissingOrEmpty  == req.email \in {Undefined, ""}
AmountMissingOrEmpty == ~req.amountGiven \/ req.amount = <<>>
AmountParsesToLEZero == req.amountGiven /\ LessEqZero(parseFloat(req.amount))
AmountParsesToPositive == req.amountGiven /\ Positive(parseFloat(req.amount))

CrmConfigured == env.GHL_API_KEY /\ env.GHL_LOCATION_ID

\* The contact upsert came back with contact.id.
ContactIdReturned ==
  \E i \in Events : ReturnedAt(i, "contact") /\ h.log[i].outcome = "contact"

\* Some CRM call (upsert, note, tag) failed: it threw, or the upsert came
\* back without contact.id.
SomeCrmCallFailed ==
  \E i \in Events :
    /\ h.log[i].ev = "return"
    /\ h.log[i].op \in {"contact", "note", "tag"}
    /\ h.log[i].outcome \in {"throw", "nocontact"}

----------------------------------------------------------------------------
(* Claims *)

\* C1: in both handlers every POST request whose phone is missing or empty,
\* or whose amount is missing, empty or parses to a number <= 0, is answered
\* with HTTP 400 whatever the environment, and no outbound call is issued.
C1_InvalidRequestGets400 ==
  (Responded /\ req.method = "POST"
     /\ (PhoneMissingOrEmpty \/ AmountMissingOrEmpty \/ AmountParsesToLEZero))
  => (h.status = 400 /\ ~AnyOutboundCall)

\* C2 as stated: in the unified handler every POST request with
\* payment_method "stripe" and no STRIPE_SECRET_KEY is answered with HTTP 500
\* and the Stripe call is never issued.
C2_StripeUnconfiguredAlways500 ==
  (variant = "unified" /\ Responded /\ req.method = "POST"
     /\ req.payment_method = "stripe" /\ ~env.STRIPE_SECRET_KEY)
  => (h.status = 500 /\ ~Issued("stripe"))

\* C2 amended: in the unified handler every POST request with payment_method
\* "stripe" and no STRIPE_SECRET_KEY never issues the Stripe call, and it is
\* answered with HTTP 500 when it passes validation (phone and email
\* non-empty, amount non-empty and not parsing to a number <= 0); a request
\* that fails validation is answered with HTTP 400.
C2_StripeUnconfigured ==
  (variant = "unified" /\ req.method = "POST"
     /\ req.payment_method = "stripe" /\ ~env.STRIPE_SECRET_KEY)
  => /\ ~Issued("stripe")
     /\ Responded =>
          IF PhoneMissingOrEmpty \/ AmountMissingOrEmpty \/ AmountParsesToLEZero
             \/ EmailMissingOrEmpty
          THEN h.status = 400
          ELSE h.status = 500

C2_Witness ==
  /\ variant = "unified" /\ Responded
  /\ req.payment_method = "stripe" /\ ~env.STRIPE_SECRET_KEY
  /\ ~PhoneMissingOrEmpty /\ ~EmailMissingOrEmpty /\ AmountParsesToPositive
  /\ h.status = 500 /\ ErrorIs(h, "Stripe is not configured.")

\* C3: in both handlers, once the Tabby call has returned a parsed response
\* the HTTP status is 200 whatever its status field, and the body has
\* success:true exactly when the status is "created" and the web_url is
\* present, redirect_url then being that web_url; otherwise success is false.
C3_TabbyOutcomeIs200 ==
  (Responded /\ Returned("tabby") /\ h.tabbyData.ok)
  => /\ h.status = 200
     /\ IF h.tabbyData.status = "created" /\ h.tabbyData.web_url # Undefined
        THEN /\ SuccessIs(h, TRUE)
             /\ "redirect_url" \in DOMAIN h.body
             /\ h.body.redirect_url = h.tabbyData.web_url
        ELSE SuccessIs(h, FALSE)

C3_Witness ==
  /\ Responded /\ Returned("tabby")
  /\ h.tabbyData.status = "created" /\ h.tabbyData.web_url = "https://pay/x"
  /\ h.status = 200 /\ SuccessIs(h, TRUE)

\* The PUT that marks the contact "tabby-rejected" was issued before the
\* response.
TagPutBeforeResponse ==
  \E i, j \in Events :
    /\ i < j
    /\ IssuedAt(i, "tag") /\ h.log[i].verb = "PUT"
    /\ "tabby-rejected" \in h.log[i].tags
    /\ h.log[j].ev = "respond"

RejectedResponse ==
  /\ h.status = 200
  /\ SuccessIs(h, FALSE)
  /\ "rejection_reason" \in DOMAIN h.body
  /\ h.body.rejection_reason =
       IF h.tabbyData.rejection_reason = Undefined
       THEN "unknown" ELSE h.tabbyData.rejection_reason

TabbyRejected ==
  /\ variant = "unified" /\ Responded
  /\ Returned("tabby") /\ h.tabbyData.ok /\ h.tabbyData.status = "rejected"

\* C4 as stated: in the unified handler a "rejected" answer of Tabby gives
\* HTTP 200 with success:false and the rejection reason (or "unknown"), and
\* whenever the CRM is configured the tag PUT is issued before the response.
C4_RejectedTagsWhenCrmConfigured ==
  TabbyRejected => (RejectedResponse /\ (CrmConfigured => TagPutBeforeResponse))

\* C4 amended: in the unified handler a "rejected" answer of Tabby gives
\* HTTP 200 with success:false and the rejection reason (or "unknown"), and
\* whenever the CRM is configured and the contact upsert returned a contact
\* id the tag PUT is issued before the response.
C4_RejectedTagsWhenContactKnown ==
  TabbyRejected =>
    (RejectedResponse
       /\ ((CrmConfigured /\ ContactIdReturned) => TagPutBeforeResponse))

C4_Witness ==
  /\ TabbyRejected /\ CrmConfigured /\ ContactIdReturned
  /\ TagPutBeforeResponse
  /\ h.tabbyData.rejection_reason = "risky"
  /\ h.body.rejection_reason = "risky"

\* The run of the unified handler from `s` in which every CRM call succeeds
\* and the providers answer `ta` (Tabby) and `sa` (Stripe).
RECURSIVE EveryCrmCallSucceeds(_, _, _)
EveryCrmCallSucceeds(s, ta, sa) ==
  CASE s.pc = "await_contact" ->
         EveryCrmCallSucceeds(ghlContactReturns(s, req, "contact"), ta, sa)
    [] s.pc = "await_stripe" -> EveryCrmCallSucceeds(stripeReturns(s, sa), ta, sa)
    [] s.pc = "await_tabby"  -> EveryCrmCallSucceeds(tabbyReturns(s, ta), ta, sa)
    [] s.pc = "await_stripe_note" ->
         EveryCrmCallSucceeds(stripeNoteReturns(s, "ok"), ta, sa)
    [] s.pc = "await_tabby_note" ->
         EveryCrmCallSucceeds(tabbyNoteReturns(s, "ok"), ta, sa)
    [] s.pc = "await_tag" -> EveryCrmCallSucceeds(tagReturns(s, "ok"), ta, sa)
    [] OTHER -> s

\* Two responses agree on everything but ghl_contact_id.
SamePrimaryOutcome(s, t) ==
  /\ s.status = t.status
  /\ DOMAIN s.body = DOMAIN t.body
  /\ \A k \in DOMAIN s.body \ {"ghl_contact_id"} : s.body[k] = t.body[k]

\* C5: in the unified handler the HTTP status, success flag and redirect_url
\* (every field but ghl_contact_id) of the response equal those of the run
\* with the same request, configuration and provider answer in which every
\* CRM call succeeds; ghl_contact_id is null when the upsert failed.
C5_CrmFailureIsolated ==
  (variant = "unified" /\ Responded) =>
    /\ \A ta \in TabbyAnswers, sa \in StripeAnswers :
         ((Returned("tabby") => ta = h.tabbyData)
            /\ (Returned("stripe") => sa = h.session))
         => SamePrimaryOutcome(h, EveryCrmCallSucceeds(unifiedStart(Idle, req), ta, sa))
    /\ ("ghl_contact_id" \in DOMAIN h.body /\ ~ContactIdReturned)
         => h.body.ghl_contact_id = Null

C5_Witness ==
  /\ variant = "unified" /\ Responded
  /\ \E i \in Events : ReturnedAt(i, "contact") /\ h.log[i].outcome = "throw"
  /\ h.status = 200 /\ SuccessIs(h, TRUE)
  /\ h.body.ghl_contact_id = Null

\* The request passed the Tabby branch's entry: a POST with a body that the
\* validation lets through and that does not select Stripe.
ReachesTabbyPath ==
  /\ req.method = "POST" /\ req.hasBody
  /\ ~validationFails(req)
  /\ variant = "unified" => (email(req) # "" /\ payment_method(req) # "stripe")

\* C6: on the Tabby path of both handlers the Tabby call is issued only when
\* TABBY_SECRET_KEY, TABBY_PUBLIC_KEY and TABBY_MERCHANT_CODE are all
\* configured; when one is missing the answer is HTTP 500 without the call.
C6_TabbyNeedsAllThreeKeys ==
  /\ Issued("tabby") =>
       (env.TABBY_SECRET_KEY /\ env.TABBY_PUBLIC_KEY /\ env.TABBY_MERCHANT_CODE)
  /\ (Responded /\ ReachesTabbyPath
        /\ ~(env.TABBY_SECRET_KEY /\ env.TABBY_PUBLIC_KEY /\ env.TABBY_MERCHANT_CODE))
     => (h.status = 500 /\ ~Issued("tabby"))

\* C7: whenever an outbound call (CRM, Tabby, Stripe) is issued, phone is
\* non-empty, amount parses to a number > 0 (an amount that does not parse
\* to a number is not accepted) and, in the unified handler, email is
\* non-empty.
C7_ValidatedBeforeOutbound ==
  AnyOutboundCall =>
    /\ ~PhoneMissingOrEmpty
    /\ AmountParsesToPositive
    /\ variant = "unified" => ~EmailMissingOrEmpty

ConfigErrorResponse ==
  /\ h.status = 500
  /\ \/ ErrorIs(h, "Stripe is not configured.")
     \/ ErrorIs(h, "Tabby is not configured.")

\* C8: in the unified handler a request that ends with a 400 validation
\* response or with a 500 configuration response has issued no outbound
\* call at all, the CRM contact upsert included.
C8_ErrorsBeforeAnyOutbound ==
  (variant = "unified" /\ Responded /\ (h.status = 400 \/ ConfigErrorResponse))
  => ~AnyOutboundCall

\* A provider session was created: Stripe returned a session, or Tabby
\* answered with status "created".
ProviderSessionCreated ==
  \/ Returned("stripe") /\ h.session.ok
  \/ Returned("tabby") /\ h.tabbyData.ok /\ h.tabbyData.status = "created"

\* The note was issued after the provider call had returned.
NoteAfterProvider ==
  \A j \in Events : IssuedAt(j, "note") =>
    \E i \in Events :
      i < j /\ (ReturnedAt(i, "stripe") \/ ReturnedAt(i, "tabby"))
            /\ h.log[i].outcome = "ok"

\* C9 as stated: in the unified handler every request in which the note call
\* is issued ends with HTTP 200 and success:true, whatever the outcome of
\* the note call.
C9_NoteImpliesSuccess ==
  (variant = "unified" /\ Responded /\ Issued("note"))
  => (h.status = 200 /\ SuccessIs(h, TRUE))

\* C9 amended: in the unified handler the note call is issued only after the
\* provider reported a created session (a Stripe session, or Tabby status
\* "created"), and every request in which it is issued ends with HTTP 200,
\* whatever the outcome of the note call; the body has success:true with the
\* provider's redirect URL, except that it has success:false when Tabby
\* answered "created" without a web_url.
C9_NoteAfterCreatedSession ==
  (variant = "unified" /\ Issued("note")) =>
    /\ ProviderSessionCreated
    /\ NoteAfterProvider
    /\ Responded =>
         /\ h.status = 200
         /\ IF Returned("tabby") /\ h.tabbyData.web_url = Undefined
            THEN SuccessIs(h, FALSE)
            ELSE /\ SuccessIs(h, TRUE)
                 /\ h.body.redirect_url =
                      IF Returned("stripe") THEN h.session.url
                      ELSE h.tabbyData.web_url

C9_Witness ==
  /\ variant = "unified" /\ Responded
  /\ \E i \in Events : ReturnedAt(i, "note") /\ h.log[i].outcome = "throw"
  /\ h.status = 200 /\ SuccessIs(h, TRUE)

ProviderOps == {"stripe", "tabby"}
FollowUpOps == {"note", "tag"}

\* Outbound calls in flight after the first n events of the log.
InFlight(n) ==
  Cardinality({i \in 1..n : h.log[i].ev = "issue"})
    - Cardinality({i \in 1..n : h.log[i].ev = "return"})

IssuesOf(ops) == {i \in Events : h.log[i].ev = "issue" /\ h.log[i].op \in ops}

\* C10: in the unified handler at most one outbound call is in flight at any
\* time; the contact upsert, if issued, completes before the provider call
\* starts; a note or tag call is issued only after the provider call has
\* returned and only if the upsert returned a contact id; each of the three
\* steps is issued at most once; nothing is issued after the response.
C10_SequentialCalls ==
  variant = "unified" =>
    /\ \A n \in 0..Len(h.log) : InFlight(n) \in {0, 1}
    /\ \A j \in IssuesOf(ProviderOps), i \in IssuesOf({"contact"}) :
         \E k \in Events : i < k /\ k < j /\ ReturnedAt(k, "contact")
    /\ \A j \in IssuesOf(FollowUpOps) :
         /\ \E k \in Events :
              k < j /\ h.log[k].ev = "return" /\ h.log[k].op \in ProviderOps
         /\ \E k \in Events :
              k < j /\ ReturnedAt(k, "contact") /\ h.log[k].outcome = "contact"
    /\ Cardinality(IssuesOf({"contact"})) <= 1
    /\ Cardinality(IssuesOf(ProviderOps)) <= 1
    /\ Cardinality(IssuesOf(FollowUpOps)) <= 1
    /\ \A i, j \in Events :
         (i < j /\ h.log[i].ev = "respond") => h.log[j].ev # "issue"

C10_Witness ==
  /\ variant = "unified" /\ Responded
  /\ Cardinality(IssuesOf({"contact"})) = 1
  /\ Cardinality(IssuesOf(ProviderOps)) = 1
  /\ Cardinality(IssuesOf(FollowUpOps)) = 1
  /\ Len(h.log) = 7

====
